---------------------------- MODULE Spec2Model ----------------------------
(***************************************************************************)
(* A model of apple_health_xml_convert.py: main() runs                     *)
(*   preprocess_to_temp_file -> xml_to_csv -> save_to_csv ->               *)
(*   remove_temp_file                                                      *)
(* over the file export.xml.                                               *)
(*                                                                         *)
(* A file is a sequence of tokens.  A token is either one character,       *)
(* Ch(c), or one piece of XML markup (a start tag, an end tag or an        *)
(* empty-element tag) that holds no newline, no 0x0B, no "<!DOCTYPE" and   *)
(* no "]>".  An attribute value is a sequence of one-character strings.    *)
(***************************************************************************)
EXTENDS Integers, Sequences, FiniteSets, TLC

VARIABLES
    export_xml,      \* contents of "export.xml", or NoFile
    linesep,         \* os.linesep of the platform the program runs on
    pc,              \* position of main()
    lines,           \* the lines `for line in infile` iterates over
    lineno,          \* index of the next line to read
    skip_dtd,        \* preprocess_to_temp_file's flag
    temp_xml,        \* contents of "temp_preprocessed_export.xml", or NoFile
    forwarded,       \* the line numbers outfile.write was called for, in order
    ppos,            \* iterparse: the token after the last one reported on
    stack,           \* iterparse: the start tags open at ppos (their positions)
    root_seen,       \* iterparse: the document element is closed at ppos
    fed,             \* iterparse: the number of tokens parsed so far
    attrib,          \* the element tree: token position -> attribute dict now held
    elem,            \* the element of the current 'end' event (a position), or 0
    events,          \* the elements iterparse has reported so far, in order
    attribute_list,  \* xml_to_csv's list of dicts
    count,           \* xml_to_csv's Record counter
    filtered_count,  \* xml_to_csv's accepted-Record counter
    health_df,       \* the DataFrame xml_to_csv returns
    csv_file         \* contents of the CSV output file, or NoFile

vars == <<export_xml, linesep, pc, lines, lineno, skip_dtd, temp_xml, forwarded,
          ppos, stack, root_seen, fed, attrib, elem, events, attribute_list,
          count, filtered_count, health_df, csv_file>>

sanVars == <<lines, lineno, skip_dtd, temp_xml, forwarded>>
xmlVars == <<ppos, stack, root_seen, fed, attrib, elem, events, attribute_list,
             count, filtered_count, health_df>>

-----------------------------------------------------------------------------
(* Characters, strings and tokens *)

Ch(c) == [k |-> "ch", c |-> c]

\* the string s (a sequence of one-character strings) as file tokens
Text(s) == [i \in 1..Len(s) |-> Ch(s[i])]

LF == Ch("\n")
CR == Ch("\r")
VT == Ch("0x0B")

\* the contents of a file that does not exist
NoFile == <<[k |-> "nofile"]>>

DOCTYPE_OPENER == Text(<<"<", "!", "D", "O", "C", "T", "Y", "P", "E">>)
DTD_CLOSER == Text(<<"]", ">">>)

StartTag(tag, a) == [k |-> "start", tag |-> tag, attrib |-> a]
EndTag(tag) == [k |-> "end", tag |-> tag]
EmptyTag(tag, a) == [k |-> "empty", tag |-> tag, attrib |-> a]

RECURSIVE Concat(_)
Concat(ss) == IF ss = <<>> THEN <<>> ELSE Head(ss) \o Concat(Tail(ss))

\* s[i..] starts with p
StartsAt(s, i, p) ==
    /\ i + Len(p) - 1 <= Len(s)
    /\ \A j \in 1..Len(p) : s[i + j - 1] = p[j]

\* Python's `p in s`
Contains(s, p) == \E i \in 1..(Len(s) + 1) : StartsAt(s, i, p)

\* Python's s.startswith(p)
StartsWith(s, p) == StartsAt(s, 1, p)

\* Python's s.replace(old, new): leftmost non-overlapping occurrences, old # ""
RECURSIVE StrReplace(_, _, _)
StrReplace(s, old, new) ==
    IF s = <<>> THEN <<>>
    ELSE IF StartsAt(s, 1, old)
         THEN new \o StrReplace(SubSeq(s, Len(old) + 1, Len(s)), old, new)
         ELSE <<Head(s)>> \o StrReplace(Tail(s), old, new)

-----------------------------------------------------------------------------
(* Text-mode file I/O: open(path, 'r') and open(path, 'w') with the default *)
(* newline=None                                                             *)

\* reading: "\r\n" and a lone "\r" are both translated to "\n"
RECURSIVE UniversalNewlines(_)
UniversalNewlines(s) ==
    IF s = <<>> THEN <<>>
    ELSE IF Head(s) = CR
         THEN IF Len(s) >= 2 /\ s[2] = LF
              THEN <<LF>> \o UniversalNewlines(SubSeq(s, 3, Len(s)))
              ELSE <<LF>> \o UniversalNewlines(Tail(s))
         ELSE <<Head(s)>> \o UniversalNewlines(Tail(s))

\* iterating a text file: each line runs through its "\n"; the last line may
\* have none
RECURSIVE SplitLines(_, _)
SplitLines(s, cur) ==
    IF s = <<>> THEN (IF cur = <<>> THEN <<>> ELSE <<cur>>)
    ELSE IF Head(s) = LF
         THEN <<cur \o <<LF>>>> \o SplitLines(Tail(s), <<>>)
         ELSE SplitLines(Tail(s), cur \o <<Head(s)>>)

ReadLines(content) == SplitLines(UniversalNewlines(content), <<>>)

\* writing: every "\n" is written as os.linesep
WriteText(s, sep) == StrReplace(s, <<LF>>, sep)

-----------------------------------------------------------------------------
(* preprocess_to_temp_file *)

\* variant: line.replace("\x0b", "", 1), which removes the first 0x0B only
StripFirst(line) ==
    IF Contains(line, <<VT>>)
    THEN LET i == CHOOSE i \in 1..Len(line) :
                      line[i] = VT /\ \A j \in 1..(i - 1) : line[j] # VT
         IN SubSeq(line, 1, i - 1) \o SubSeq(line, i + 1, Len(line))
    ELSE line

strip_invisible_character(line) == StrReplace(line, <<VT>>, <<>>)

\* open(file_path, 'r') and open(temp_file_path, 'w'): a missing export.xml
\* raises, and nothing else of main() runs
OpenFiles ==
    /\ pc = "preprocess"
    /\ IF export_xml = NoFile
       THEN /\ pc' = "failed"
            /\ UNCHANGED sanVars
       ELSE /\ pc' = "sanitize"
            /\ lines' = ReadLines(export_xml)
            /\ lineno' = 1
            /\ skip_dtd' = FALSE
            /\ temp_xml' = <<>>
            /\ forwarded' = <<>>
    /\ UNCHANGED <<export_xml, linesep, csv_file>>
    /\ UNCHANGED xmlVars

\* variant: the flag follows the opener on the current line alone
SkipOnOpenerLineOnly(line, skip) == Contains(line, DOCTYPE_OPENER)

\* the flag after `if '<!DOCTYPE' in line: skip_dtd = True`
SkipAfterOpener(line, skip) == skip \/ Contains(line, DOCTYPE_OPENER)

\* variant: the closer never resets the flag
SkipNeverReset(line, skip) == skip

\* the flag after `if ']>' in line: skip_dtd = False`
SkipAfterCloser(line, skip) == skip /\ ~Contains(line, DTD_CLOSER)

\* one iteration of `for line in infile`
SanitizeLine ==
    /\ pc = "sanitize"
    /\ lineno <= Len(lines)
    /\ LET line == lines[lineno]
           skip1 == SkipAfterOpener(line, skip_dtd)
           line1 == IF skip1 THEN line ELSE strip_invisible_character(line)
       IN /\ temp_xml' = IF skip1 THEN temp_xml
                         ELSE temp_xml \o WriteText(line1, linesep)
          /\ forwarded' = IF skip1 THEN forwarded ELSE Append(forwarded, lineno)
          /\ skip_dtd' = SkipAfterCloser(line1, skip1)
    /\ lineno' = lineno + 1
    /\ UNCHANGED <<export_xml, linesep, pc, lines, csv_file>>
    /\ UNCHANGED xmlVars

\* the end of the input: both files are closed and temp_file_path is returned
\* to main(), which calls xml_to_csv
SanitizeDone ==
    /\ pc = "sanitize"
    /\ lineno > Len(lines)
    /\ pc' = "xml_to_csv"
    /\ UNCHANGED <<export_xml, linesep, csv_file>>
    /\ UNCHANGED sanVars
    /\ UNCHANGED xmlVars

-----------------------------------------------------------------------------
(* ET.iterparse(file_path, events=('end',)): the tokens of the temporary    *)
(* file are parsed in order; an element is created, with its attributes, at *)
(* its start tag and reported at its end tag.  The file is parsed a chunk   *)
(* at a time, so the parser may have parsed, and created the elements of,   *)
(* tokens beyond the end tag it reports; it parses nothing beyond the first *)
(* error.                                                                   *)

Whitespace == {LF, CR, Ch(" ")}

Top(st) == st[Len(st)]
Pop(st) == SubSeq(st, 1, Len(st) - 1)

\* From position p with open elements st: the next 'end' event, the end of a
\* well-formed document, or a ParseError.
RECURSIVE Scan(_, _, _, _)
Scan(toks, p, st, rs) ==
    IF p > Len(toks)
    THEN [kind |-> IF st = <<>> /\ rs THEN "eof" ELSE "error",
          pos |-> p, stack |-> st, root_seen |-> rs, elem |-> 0]
    ELSE LET t == toks[p]
             err == [kind |-> "error", pos |-> p, stack |-> st,
                     root_seen |-> rs, elem |-> 0]
         IN CASE t.k = "ch" ->
                   IF t \in Whitespace THEN Scan(toks, p + 1, st, rs)
                   ELSE IF t = VT \/ t = Ch("<") \/ st = <<>> THEN err
                   ELSE Scan(toks, p + 1, st, rs)
              [] t.k = "start" ->
                   IF rs THEN err
                   ELSE Scan(toks, p + 1, Append(st, p), rs)
              [] t.k = "empty" ->
                   IF rs THEN err
                   ELSE [kind |-> "event", pos |-> p + 1, stack |-> st,
                         root_seen |-> (st = <<>>), elem |-> p]
              [] t.k = "end" ->
                   IF st = <<>> \/ toks[Top(st)].tag # t.tag THEN err
                   ELSE [kind |-> "event", pos |-> p + 1, stack |-> Pop(st),
                         root_seen |-> (Len(st) = 1), elem |-> Top(st)]

\* the number of tokens the parser can parse: all of them, or those before
\* the first error
RECURSIVE Parsable(_, _, _, _)
Parsable(toks, p, st, rs) ==
    LET r == Scan(toks, p, st, rs)
    IN IF r.kind = "event" THEN Parsable(toks, r.pos, r.stack, r.root_seen)
       ELSE r.pos - 1

\* how far the parser may have parsed when it reports what lies before
\* position p: at least as far as it had already and up to p, and from there
\* to the end of a chunk, which may be anywhere in what can be parsed
FedAfter(done, p, limit) ==
    (IF done > p - 1 THEN done ELSE p - 1)..limit

\* variant: the ParseError is swallowed and the rows read so far are used
IterOutcomeSwallowed(kind) ==
    CASE kind = "event" -> "body"
      [] kind = "eof" -> "frame"
      [] kind = "error" -> "frame"

\* where main() is after the `for` statement asked iterparse for its next
\* item: in the loop body, past the loop, or unwound by the ParseError
IterOutcome(kind) ==
    CASE kind = "event" -> "body"
      [] kind = "eof" -> "frame"
      [] kind = "error" -> "failed"

\* the `for event, elem in ET.iterparse(...)` header
IterNext ==
    /\ pc = "xml_to_csv"
    /\ LET r == Scan(temp_xml, ppos, stack, root_seen)
           limit == Parsable(temp_xml, ppos, stack, root_seen)
       IN /\ pc' = IterOutcome(r.kind)
          /\ ppos' = r.pos
          /\ stack' = r.stack
          /\ root_seen' = r.root_seen
          /\ elem' = r.elem
          /\ events' = IF r.kind = "event" THEN Append(events, r.elem) ELSE events
          /\ \E f \in FedAfter(fed, r.pos, limit) :
                /\ fed' = f
                /\ LET made == {q \in (fed + 1)..f : temp_xml[q].k \in {"start", "empty"}}
                   IN attrib' = [q \in DOMAIN attrib \cup made |->
                                   IF q \in made THEN temp_xml[q].attrib ELSE attrib[q]]
    /\ UNCHANGED <<export_xml, linesep, csv_file>>
    /\ UNCHANGED sanVars
    /\ UNCHANGED <<attribute_list, count, filtered_count, health_df>>

-----------------------------------------------------------------------------
(* xml_to_csv: the loop body *)

columns_to_keep == {"type", "unit", "creationDate", "startDate", "endDate", "value"}

YEAR_PREFIX == <<"2", "0", "2", "5">>

\* child_attrib.get('startDate', '')
GetStartDate(a) == IF "startDate" \in DOMAIN a THEN a["startDate"] ELSE <<>>

\* variant: '2025' in start_date
AcceptsAnywhere(start_date) == start_date # <<>> /\ Contains(start_date, YEAR_PREFIX)

\* the negation of `not start_date or not start_date.startswith('2025')`
Accepts(start_date) == start_date # <<>> /\ StartsWith(start_date, YEAR_PREFIX)

\* variant: dict(child_attrib), every attribute kept
ProjectAll(a) == a

\* {k: child_attrib[k] for k in columns_to_keep if k in child_attrib}
Project(a) == [k \in columns_to_keep \cap DOMAIN a |-> a[k]]

\* elem.clear() on the element created at position e whose end tag is at
\* position last: its attribute dict is emptied and its children are dropped
Clear(tree, e, last) ==
    [q \in DOMAIN tree \ ((e + 1)..last) |-> IF q = e THEN <<>> ELSE tree[q]]

\* variant: `continue` without elem.clear()
KeepRejected(tree, e, last) == tree

\* the tree after the rejected branch (`elem.clear(); continue`)
ClearRejected(tree, e, last) == Clear(tree, e, last)

\* the row appended and the tree after the accepted branch: the row is built
\* from the dict the element holds at that moment, then the element is cleared
AcceptRecord(tree, e, last) ==
    [row |-> Project(tree[e]), tree |-> Clear(tree, e, last)]

LoopBody ==
    /\ pc = "body"
    /\ pc' = "xml_to_csv"
    /\ IF temp_xml[elem].tag = "Record"
       THEN /\ count' = count + 1
            /\ IF Accepts(GetStartDate(attrib[elem]))
               THEN LET r == AcceptRecord(attrib, elem, ppos - 1)
                    IN /\ attribute_list' = Append(attribute_list, r.row)
                       /\ filtered_count' = filtered_count + 1
                       /\ attrib' = r.tree
               ELSE /\ attrib' = ClearRejected(attrib, elem, ppos - 1)
                    /\ UNCHANGED <<attribute_list, filtered_count>>
       ELSE UNCHANGED <<attrib, attribute_list, count, filtered_count>>
    /\ UNCHANGED <<export_xml, linesep, csv_file>>
    /\ UNCHANGED sanVars
    /\ UNCHANGED <<ppos, stack, root_seen, fed, elem, events, health_df>>

-----------------------------------------------------------------------------
(* xml_to_csv: the DataFrame (lines 98-111) *)

\* a missing cell of a DataFrame; no attribute value equals it
NaN == <<"NaN">>

QUANTITY_PREFIX == <<"H", "K", "Q", "u", "a", "n", "t", "i", "t", "y",
                     "T", "y", "p", "e", "I", "d", "e", "n", "t", "i", "f", "i", "e", "r">>
CATEGORY_PREFIX == <<"H", "K", "C", "a", "t", "e", "g", "o", "r", "y",
                     "T", "y", "p", "e", "I", "d", "e", "n", "t", "i", "f", "i", "e", "r">>

\* the frame before xml_to_csv has built one
NoFrame == [columns |-> {"<none>"}, index |-> <<>>, rows |-> <<>>]

\* variant: pd.DataFrame(rows, columns=sorted(columns_to_keep))
DataFrameFixedColumns(rows) ==
    [columns |-> columns_to_keep,
     index |-> [i \in 1..Len(rows) |-> i],
     rows |-> [i \in 1..Len(rows) |->
                 [c \in columns_to_keep |->
                    IF c \in DOMAIN rows[i] THEN rows[i][c] ELSE NaN]]]

\* pd.DataFrame(list of dicts): the columns are the keys seen, a row that
\* lacks a column holds NaN there, the index numbers the rows
DataFrame(rows) ==
    LET cols == UNION {DOMAIN rows[i] : i \in 1..Len(rows)}
    IN [columns |-> cols,
        index |-> [i \in 1..Len(rows) |-> i],
        rows |-> [i \in 1..Len(rows) |->
                    [c \in cols |-> IF c \in DOMAIN rows[i] THEN rows[i][c] ELSE NaN]]]

\* Series.str.replace(pat, ""): NaN stays NaN
SeriesReplace(v, pat) == IF v = NaN THEN NaN ELSE StrReplace(v, pat, <<>>)

\* the two replacements of lines 102-103 on one cell of the type column
NormalizeType(v) == SeriesReplace(SeriesReplace(v, QUANTITY_PREFIX), CATEGORY_PREFIX)

\* lines 101-103
ReplaceTypes(df) ==
    IF "type" \in df.columns /\ Len(df.rows) > 0
    THEN [df EXCEPT !.rows = [i \in 1..Len(df.rows) |->
                                [df.rows[i] EXCEPT !["type"] = NormalizeType(@)]]]
    ELSE df

\* the characters of the model's startDate values, in code-point order
CodePoints == <<"-", "0", "1", "2", "3", "4", "5", "6", "7", "8", "9">>

Code(c) == CHOOSE i \in 1..Len(CodePoints) : CodePoints[i] = c

\* Python's a < b on strings
StrLess(a, b) ==
    \E i \in 1..(Len(a) + 1) :
        /\ \A j \in 1..(i - 1) : j <= Len(b) /\ a[j] = b[j]
        /\ i <= Len(b)
        /\ (i <= Len(a) => Code(a[i]) < Code(b[i]))

\* variant: ascending=True
MayPrecedeAscending(a, b) == b = NaN \/ (a # NaN /\ ~StrLess(b, a))

\* a before b under sort_values(ascending=False): NaN last
MayPrecede(a, b) == b = NaN \/ (a # NaN /\ ~StrLess(a, b))

IndexOrders(n) == {f \in [1..n -> 1..n] : \A i, j \in 1..n : f[i] = f[j] => i = j}

\* the orders sort_values(by=col, ascending=False) may leave the rows in:
\* the default sort kind is not stable, so rows with equal keys may end up
\* in either order
SortOrders(df, col) ==
    {f \in IndexOrders(Len(df.rows)) :
        \A i \in 1..(Len(df.rows) - 1) :
            MayPrecede(df.rows[f[i]][col], df.rows[f[i + 1]][col])}

Reorder(df, f) ==
    [df EXCEPT !.index = [i \in 1..Len(df.rows) |-> df.index[f[i]]],
               !.rows = [i \in 1..Len(df.rows) |-> df.rows[f[i]]]]

\* lines 98-111: build the frame, normalise the type column, sort, return
BuildFrame ==
    /\ pc = "frame"
    /\ LET df == ReplaceTypes(DataFrame(attribute_list))
       IN IF "startDate" \in df.columns /\ Len(df.rows) > 0
          THEN \E f \in SortOrders(df, "startDate") : health_df' = Reorder(df, f)
          ELSE health_df' = df
    /\ pc' = "save_to_csv"
    /\ UNCHANGED <<export_xml, linesep, csv_file>>
    /\ UNCHANGED sanVars
    /\ UNCHANGED <<ppos, stack, root_seen, fed, attrib, elem, events,
                   attribute_list, count, filtered_count>>

-----------------------------------------------------------------------------
(* save_to_csv, remove_temp_file *)

\* DataFrame.to_csv(filename, index=False): a header line, then one line per
\* row, a NaN cell written as the empty string
ToCsv(df) ==
    <<[k |-> "header", columns |-> df.columns]>> \o
    [i \in 1..Len(df.rows) |->
        [k |-> "row",
         cells |-> [c \in df.columns |->
                      IF df.rows[i][c] = NaN THEN <<>> ELSE df.rows[i][c]]]]

SaveToCsv ==
    /\ pc = "save_to_csv"
    /\ csv_file' = ToCsv(health_df)
    /\ pc' = "remove_temp_file"
    /\ UNCHANGED <<export_xml, linesep>>
    /\ UNCHANGED sanVars
    /\ UNCHANGED xmlVars

RemoveTempFile ==
    /\ pc = "remove_temp_file"
    /\ temp_xml' = NoFile
    /\ pc' = "done"
    /\ UNCHANGED <<export_xml, linesep, csv_file>>
    /\ UNCHANGED <<lines, lineno, skip_dtd, forwarded>>
    /\ UNCHANGED xmlVars

-----------------------------------------------------------------------------
(* The state main() starts in *)

Start(doc, sep) ==
    /\ export_xml = doc
    /\ linesep = sep
    /\ pc = "preprocess"
    /\ lines = <<>>
    /\ lineno = 1
    /\ skip_dtd = FALSE
    /\ temp_xml = NoFile
    /\ forwarded = <<>>
    /\ ppos = 1
    /\ fed = 0
    /\ stack = <<>>
    /\ root_seen = FALSE
    /\ attrib = <<>>
    /\ elem = 0
    /\ events = <<>>
    /\ attribute_list = <<>>
    /\ count = 0
    /\ filtered_count = 0
    /\ health_df = NoFrame
    /\ csv_file = NoFile

Next ==
    \/ OpenFiles
    \/ SanitizeLine
    \/ SanitizeDone
    \/ IterNext
    \/ LoopBody
    \/ BuildFrame
    \/ SaveToCsv
    \/ RemoveTempFile

\* sequences over S of length at most n
SeqUpTo(S, n) == UNION {[1..m -> S] : m \in 0..n}


EachLine(items) == Concat([i \in 1..Len(items) |-> items[i] \o <<LF>>])

ROOT_OPEN == <<StartTag("HealthData", [locale |-> <<"e", "n">>])>>
ROOT_CLOSE == <<EndTag("HealthData")>>

D2025 == <<"2", "0", "2", "5", "-", "0", "1">>
D2024 == <<"2", "0", "2", "4", "-", "1", "2">>
DShort == <<"2", "0", "2">>
DInner == <<"1", "2", "0", "2", "5">>
StepCount == <<"S", "t", "e", "p">>

-----------------------------------------------------------------------------
(* Spec: whole runs of main() over documents of Record elements with varied  *)
(* attributes, with and without a DOCTYPE block, well-formed and not         *)

MaxRecords == 2

FullRecord(sd) ==
    [type |-> QUANTITY_PREFIX \o StepCount, unit |-> <<"n">>,
     creationDate |-> D2025, startDate |-> sd, endDate |-> D2025,
     value |-> <<"7">>, sourceName |-> <<"w">>, device |-> <<"d">>]

PartialRecord(sd) == [startDate |-> sd, sourceName |-> <<"w">>]

MainAttribs ==
    {FullRecord(sd) : sd \in {D2025, D2024, DShort, DInner, <<>>}}
    \cup {PartialRecord(sd) : sd \in {D2025, D2024, DShort, DInner, <<>>}}
    \cup {[type |-> StepCount, value |-> <<"7">>, device |-> <<"d">>], <<>>}

MainItems ==
    {<<EmptyTag("Record", a)>> : a \in MainAttribs}
    \cup {<<EmptyTag("Workout", [startDate |-> D2025, value |-> <<"7">>])>>,
          <<StartTag("Record", FullRecord(D2025)),
            EmptyTag("MetadataEntry", [key |-> <<"k">>, value |-> <<"1">>]),
            EndTag("Record")>>,
          <<VT, EmptyTag("Record", PartialRecord(D2025)), VT>>,
          <<EndTag("Record")>>}

Prologs ==
    {<<>>,
     <<DOCTYPE_OPENER, Text(<<"a">>), DTD_CLOSER>>,
     <<DOCTYPE_OPENER>>}

MainDocs ==
    {EachLine(pro \o <<ROOT_OPEN>> \o body \o epi) :
        pro \in Prologs, body \in SeqUpTo(MainItems, MaxRecords),
        epi \in {<<ROOT_CLOSE>>, <<>>}}

Init == \E doc \in MainDocs \cup {NoFile} : Start(doc, <<LF>>)

Spec == Init /\ [][Next]_vars

-----------------------------------------------------------------------------
(* SpecSan: preprocess_to_temp_file alone, over character-level lines with   *)
(* every line terminator, on both kinds of platform                          *)

MaxLines == 3

SanLines ==
    {b \o <<LF>> : b \in
        {Text(<<"a">>),
         <<Ch("a"), VT, Ch("b"), VT>>,
         DOCTYPE_OPENER \o Text(<<"a">>),
         Text(<<"a">>) \o DTD_CLOSER,
         DOCTYPE_OPENER \o DTD_CLOSER,
         <<Ch("]"), VT, Ch(">")>>,
         Text(<<"<", "!", "D", "O", "C">>) \o <<VT>> \o Text(<<"T", "Y", "P", "E">>)}}
    \cup {Text(<<"a">>) \o <<CR, LF>>, Text(<<"b">>) \o <<CR>>, Text(<<"c">>)}

SanDocs == {Concat(ls) : ls \in SeqUpTo(SanLines, MaxLines)}

InitSan ==
    \E doc \in SanDocs \cup {NoFile}, sep \in {<<LF>>, <<CR, LF>>} : Start(doc, sep)

NextSan ==
    \/ OpenFiles
    \/ SanitizeLine
    \/ SanitizeDone

SpecSan == InitSan /\ [][NextSan]_vars

-----------------------------------------------------------------------------
(* SpecNorm: whole runs over well-formed documents whose accepted Records    *)
(* carry type values with the two prefixes at the front, inside and nowhere  *)

MaxNormRows == 2

TypeValues ==
    {QUANTITY_PREFIX \o StepCount,
     CATEGORY_PREFIX \o StepCount,
     StepCount,
     StepCount \o QUANTITY_PREFIX,
     QUANTITY_PREFIX \o StepCount \o CATEGORY_PREFIX,
     SubSeq(CATEGORY_PREFIX, 1, 10) \o QUANTITY_PREFIX
         \o SubSeq(CATEGORY_PREFIX, 11, 24) \o StepCount}

NormItems ==
    {<<EmptyTag("Record", [type |-> t, startDate |-> D2025])>> : t \in TypeValues}
    \cup {<<EmptyTag("Record", [startDate |-> D2025, value |-> <<"7">>])>>}

NormDocs ==
    {EachLine(<<ROOT_OPEN>> \o body \o <<ROOT_CLOSE>>) :
        body \in SeqUpTo(NormItems, MaxNormRows)}

InitNorm == \E doc \in NormDocs : Start(doc, <<LF>>)

SpecNorm == InitNorm /\ [][Next]_vars

-----------------------------------------------------------------------------
(* SpecSort: whole runs over well-formed documents whose Records differ in   *)
(* startDate, with equal dates among them                                    *)

MaxSortRows == 3

SortDates ==
    {<<"2", "0", "2", "5", "-", "0", "3">>,
     <<"2", "0", "2", "5", "-", "0", "1">>,
     <<"2", "0", "2", "5", "-", "0", "6">>,
     <<"2", "0", "2", "5">>,
     <<"2", "0", "2", "4", "-", "1", "2">>}

SortItems ==
    {<<EmptyTag("Record", [startDate |-> d, value |-> v])>> :
        d \in SortDates, v \in {<<"7">>, <<"8">>}}

SortDocs ==
    {EachLine(<<ROOT_OPEN>> \o body \o <<ROOT_CLOSE>>) :
        body \in SeqUpTo(SortItems, MaxSortRows)}

InitSort == \E doc \in SortDocs : Start(doc, <<LF>>)

SpecSort == InitSort /\ [][Next]_vars

-----------------------------------------------------------------------------
(* Vocabulary of the sanitizer's properties *)

LineNumbers == 1..Len(lines)

HasOpener(i) == Contains(lines[i], DOCTYPE_OPENER)
HasCloser(i) == Contains(lines[i], DTD_CLOSER)

\* the members of S, a set of line numbers, in increasing order
Ascending(S) == SelectSeq([i \in 1..Len(lines) |-> i], LAMBDA i : i \in S)

\* line j lies between an opener line and the first closer line at or after
\* that opener (or the end of the input), both included
InSpan(j) ==
    \E i \in 1..j : HasOpener(i) /\ \A m \in i..(j - 1) : ~HasCloser(m)

\* preprocess_to_temp_file has returned
SanitizerReturned == pc = "xml_to_csv" /\ ppos = 1

\* the lines of a file as they are stored, each with its own terminator
RECURSIVE RawLines(_, _)
RawLines(s, cur) ==
    IF s = <<>> THEN (IF cur = <<>> THEN <<>> ELSE <<cur>>)
    ELSE IF Head(s) = CR /\ Len(s) >= 2 /\ s[2] = LF
         THEN <<cur \o <<CR, LF>>>> \o RawLines(SubSeq(s, 3, Len(s)), <<>>)
    ELSE IF Head(s) \in {CR, LF}
         THEN <<cur \o <<Head(s)>>>> \o RawLines(Tail(s), <<>>)
    ELSE RawLines(Tail(s), cur \o <<Head(s)>>)

WithoutVT(s) == SelectSeq(s, LAMBDA t : t # VT)

Terminator(raw) ==
    IF Len(raw) >= 2 /\ SubSeq(raw, Len(raw) - 1, Len(raw)) = <<CR, LF>> THEN <<CR, LF>>
    ELSE IF raw # <<>> /\ raw[Len(raw)] \in {CR, LF} THEN <<raw[Len(raw)]>>
    ELSE <<>>

\* the stored line with its terminator, if it has one, replaced by sep
Reterminated(raw, sep) ==
    LET t == Terminator(raw)
    IN SubSeq(raw, 1, Len(raw) - Len(t)) \o (IF t = <<>> THEN <<>> ELSE sep)

\* C5 as amended: while and after the sanitizer runs, the lines forwarded so far
\* are exactly the lines read so far that lie in no span from an opener line
\* through the first closer line at or after it, in their original order, each
\* once.
C5_Elision ==
    pc \in {"sanitize", "xml_to_csv"} =>
        forwarded = Ascending({j \in 1..(lineno - 1) : ~InSpan(j)})

C5_Witness ==
    /\ SanitizerReturned
    /\ \E i, k \in LineNumbers :
          /\ i < k /\ HasOpener(i) /\ HasCloser(k) /\ ~HasCloser(i)
          /\ forwarded # <<>>
          /\ \A p \in 1..Len(forwarded) : forwarded[p] \notin i..k

\* C5 as stated: with i the first opener line and k the first closer line after
\* it, the lines forwarded are exactly the lines outside i..k.
C5_Original ==
    SanitizerReturned =>
        \A i, k \in LineNumbers :
            ( /\ i < k
              /\ HasOpener(i) /\ \A m \in 1..(i - 1) : ~HasOpener(m)
              /\ HasCloser(k) /\ \A m \in i..(k - 1) : ~HasCloser(m) )
            => forwarded = Ascending(LineNumbers \ (i..k))

\* what the file holds for the lines forwarded, given each line's text
Written(text(_)) == Concat([p \in 1..Len(forwarded) |-> text(forwarded[p])])

\* C6 as amended: the temporary file holds, for each line forwarded, the stored
\* line with every 0x0B removed and its terminator replaced by os.linesep, and
\* nothing else changed; it holds no 0x0B; an input with no 0x0B, no opener
\* line and only os.linesep terminators is written out identical.
C6_Stripping ==
    SanitizerReturned =>
        LET raw == RawLines(export_xml, <<>>)
            out(i) == Reterminated(WithoutVT(raw[i]), linesep)
        IN /\ Len(raw) = Len(lines)
           /\ temp_xml = Written(out)
           /\ \A p \in 1..Len(temp_xml) : temp_xml[p] # VT
           /\ ( /\ \A p \in 1..Len(export_xml) : export_xml[p] # VT
                /\ \A i \in LineNumbers :
                      ~HasOpener(i) /\ Terminator(raw[i]) \in {<<>>, linesep} )
              => temp_xml = export_xml

C6_Witness ==
    /\ SanitizerReturned
    /\ \E p, q \in 1..Len(forwarded) :
          /\ Contains(lines[forwarded[p]], <<VT>>)
          /\ Terminator(RawLines(export_xml, <<>>)[forwarded[q]]) \notin {<<>>, linesep}

\* C6 as stated: each line forwarded is the stored line with every 0x0B removed
\* and nothing else changed, and a clean input is written out identical.
C6_Original ==
    SanitizerReturned =>
        LET raw == RawLines(export_xml, <<>>)
            out(i) == WithoutVT(raw[i])
        IN /\ temp_xml = Written(out)
           /\ ( /\ \A p \in 1..Len(export_xml) : export_xml[p] # VT
                /\ \A i \in LineNumbers : ~HasOpener(i) )
              => temp_xml = export_xml

\* an opener line with no closer at or after it
Unclosed(i) == HasOpener(i) /\ \A m \in i..Len(lines) : ~HasCloser(m)

\* C10 as amended: reading a readable input never raises, and when line i holds
\* the opener and no line at or after i holds the closer, no line from i on is
\* forwarded and the lines forwarded are exactly the lines before i that lie in
\* no earlier opener-to-closer span.
C10_Unclosed ==
    /\ pc = "failed" => export_xml = NoFile
    /\ SanitizerReturned =>
          \A i \in LineNumbers :
              Unclosed(i) => forwarded = Ascending({j \in 1..(i - 1) : ~InSpan(j)})

C10_Witness ==
    /\ SanitizerReturned
    /\ \E i \in LineNumbers : Unclosed(i) /\ 1 < i /\ i < Len(lines)
    /\ forwarded # <<>>

\* C10 as stated: with i the first opener line that no closer follows, the lines
\* forwarded are exactly the lines before i.
C10_Original ==
    SanitizerReturned =>
        \A i \in LineNumbers :
            (Unclosed(i) /\ \A m \in 1..(i - 1) : ~Unclosed(m))
            => forwarded = Ascending(1..(i - 1))

-----------------------------------------------------------------------------
(* Vocabulary of the extractor's properties *)

\* xml_to_csv is running or has ended, and the temporary file still exists
Extracting == pc \in {"xml_to_csv", "body", "frame", "save_to_csv", "remove_temp_file"}
               \/ (pc = "failed" /\ temp_xml # NoFile)

\* the elements whose 'end' event the loop body has finished with
Processed == IF pc = "body" THEN SubSeq(events, 1, Len(events) - 1) ELSE events

\* the attributes element e has in the sanitized document
Original(e) == temp_xml[e].attrib

IsRecord(e) == temp_xml[e].tag = "Record"

\* a Record element whose startDate attribute starts with "2025"
Matches(e) ==
    /\ IsRecord(e)
    /\ "startDate" \in DOMAIN Original(e)
    /\ Len(Original(e)["startDate"]) >= 4
    /\ SubSeq(Original(e)["startDate"], 1, 4) = <<"2", "0", "2", "5">>

Matching == SelectSeq(Processed, Matches)

\* C1: the rows accumulated are, in order, one for each element processed so far
\* that is a Record whose startDate starts with "2025", and none for any other
\* element; the two counters count the Records seen and the rows kept.
C1_Selection ==
    Extracting =>
        /\ Len(attribute_list) = Len(Matching)
        /\ \A i \in 1..Len(Matching) :
              /\ "startDate" \in DOMAIN attribute_list[i]
              /\ attribute_list[i]["startDate"] = Original(Matching[i])["startDate"]
        /\ filtered_count = Len(attribute_list)
        /\ count = Len(SelectSeq(Processed, IsRecord))

C1_Witness ==
    /\ pc = "frame"
    /\ Len(attribute_list) = 1
    /\ \E i \in 1..Len(Processed) :
          /\ IsRecord(Processed[i])
          /\ "startDate" \in DOMAIN Original(Processed[i])
          /\ Original(Processed[i])["startDate"] = DInner

\* C2: every row has as keys exactly the record's attribute names that are in
\* the projection set, each with the record's own value.
C2_Projection ==
    Extracting =>
        \A i \in 1..Len(attribute_list) :
            LET a == Original(Matching[i])
                kept == DOMAIN a \cap {"type", "unit", "creationDate",
                                       "startDate", "endDate", "value"}
            IN /\ DOMAIN attribute_list[i] = kept
               /\ \A k \in kept : attribute_list[i][k] = a[k]

C2_Witness ==
    /\ pc = "frame"
    /\ Len(attribute_list) = 2
    /\ "sourceName" \in DOMAIN Original(Matching[1])
    /\ DOMAIN attribute_list[1] = columns_to_keep
    /\ DOMAIN attribute_list[2] = {"startDate"}

\* the sanitized document was read to its end and is well-formed
ParsedWhole ==
    /\ ppos > Len(temp_xml)
    /\ stack = <<>>
    /\ root_seen

\* C7: a run that failed has written no CSV file, and a CSV file exists only
\* once the parser has read the whole sanitized document without an error and
\* every row accumulated is in the file.
C7_NoPartialCsv ==
    /\ pc = "failed" => csv_file = NoFile
    /\ csv_file # NoFile =>
          /\ pc \in {"remove_temp_file", "done"}
          /\ stack = <<>> /\ root_seen
          /\ pc = "remove_temp_file" => ParsedWhole
          /\ Len(csv_file) = 1 + Len(attribute_list)

C7_Witness ==
    /\ pc = "failed"
    /\ attribute_list # <<>>
    /\ csv_file = NoFile

\* C8: when the traversal ends with no row accepted, the frame returned has no
\* row and no column, nothing fails after the traversal, and the CSV file is
\* written from that frame.
C8_EmptySelection ==
    /\ (pc = "save_to_csv" /\ attribute_list = <<>>) =>
          health_df = [columns |-> {}, index |-> <<>>, rows |-> <<>>]
    /\ (pc = "failed" /\ temp_xml # NoFile) => ~ParsedWhole
    /\ (pc \in {"remove_temp_file", "done"} /\ attribute_list = <<>>) =>
          csv_file = <<[k |-> "header", columns |-> {}]>>

C8_Witness ==
    /\ pc = "remove_temp_file"
    /\ attribute_list = <<>>
    /\ count > 0

\* the elements the loop has been handed that are still in the tree
Reported == {events[i] : i \in 1..Len(events)} \cap DOMAIN attrib

\* C9 as amended: a Record element the loop has been handed still holds
\* attributes only while it is the element the loop body is working on, so
\* every Record the body has finished with is cleared, whichever branch it
\* took; and every row was copied before its element was cleared.
C9_Release ==
    Extracting =>
        /\ \A e \in Reported :
              (IsRecord(e) /\ attrib[e] # <<>>) => (pc = "body" /\ e = elem)
        /\ \A i \in 1..Len(attribute_list) :
              attribute_list[i] # <<>> /\ "startDate" \in DOMAIN attribute_list[i]

\* C9 as stated: of the elements the loop has been handed, the only one that
\* still holds attributes is the element the loop body is working on.
C9_Original ==
    Extracting =>
        \A e \in Reported : attrib[e] # <<>> => (pc = "body" /\ e = elem)

C9_Witness ==
    /\ pc = "body"
    /\ IsRecord(elem)
    /\ attrib[elem] # <<>>
    /\ count = 1
    /\ \/ Len(attribute_list) = 1
       \/ Original(events[1]) # <<>>

-----------------------------------------------------------------------------
(* Vocabulary of the table's properties *)

\* xml_to_csv has returned its frame
Returned == pc \in {"save_to_csv", "remove_temp_file", "done"}

\* the accepted row that the frame's row at position p was built from
SourceRow(p) == attribute_list[health_df.index[p]]

\* v without the prefix pre, when it starts with it
WithoutPrefix(v, pre) ==
    IF Len(v) >= Len(pre) /\ SubSeq(v, 1, Len(pre)) = pre
    THEN SubSeq(v, Len(pre) + 1, Len(v))
    ELSE v

RECURSIVE LexGeq(_, _)
LexGeq(a, b) ==
    LET rank(c) == CHOOSE n \in 0..10 :
                       <<"-", "0", "1", "2", "3", "4", "5", "6", "7", "8", "9">>[n + 1] = c
    IN IF b = <<>> THEN TRUE
       ELSE IF a = <<>> THEN FALSE
       ELSE IF Head(a) = Head(b) THEN LexGeq(Tail(a), Tail(b))
       ELSE rank(Head(a)) > rank(Head(b))

\* C4: the frame returned holds each accepted row exactly once (its index is a
\* permutation of the accepted rows' positions and each row keeps its own
\* values), and the startDate of each row is greater than or equal to that of
\* the row after it.
C4_SortedPermutation ==
    Returned =>
        LET n == Len(attribute_list)
        IN /\ Len(health_df.rows) = n
           /\ Len(health_df.index) = n
           /\ {health_df.index[p] : p \in 1..n} = 1..n
           /\ \A p \in 1..n :
                 \A c \in DOMAIN SourceRow(p) \ {"type"} :
                     health_df.rows[p][c] = SourceRow(p)[c]
           /\ \A p \in 1..(n - 1) :
                 LexGeq(health_df.rows[p]["startDate"], health_df.rows[p + 1]["startDate"])

C4_Witness ==
    /\ pc = "save_to_csv"
    /\ Len(health_df.rows) = 3
    /\ health_df.index = <<3, 1, 2>>
    /\ health_df.rows[1]["startDate"] # health_df.rows[2]["startDate"]
    /\ health_df.rows[2]["startDate"] = health_df.rows[3]["startDate"]

=============================================================================
